---- MODULE Spec2Model ----
(***************************************************************************)
(* Model of recommendation_engine.py: the song-name normalizer, the fuzzy  *)
(* name resolution and the crossfade selection of                          *)
(* find_best_crossfade_from_match, and the stages of main.                 *)
(*                                                                         *)
(* A Python str is a sequence of one-character strings.  Row indices are   *)
(* the 0-based indices of the code; row i of the table is df[i + 1].       *)
(***************************************************************************)
EXTENDS Integers, Sequences, FiniteSets, TLC

VARIABLES
    name,               \* normalize_song_name: the argument
    once,               \* normalize_song_name(name)
    twice,              \* normalize_song_name(normalize_song_name(name))
    target_song_name,   \* sys.argv[1], the query
    df,                 \* the 'filename' column of the table, in row order
    tempo,              \* the columns tempo_start, tempo_end: a pair for each row
    similarity_matrix,  \* similarity_matrix[i + 1][j + 1] for rows i, j
    best_match_idx,     \* name resolution: the resolved row, or -1
    best_match_score,   \* name resolution: the best score, <<numerator, denominator>>
    similar_indices,    \* similarities.argsort()[::-1]
    match_idx,          \* the row whose filename is returned, or -1
    find_log,           \* the last message of find_best_crossfade_from_match
    recommended,        \* what find_best_crossfade_from_match returns
    argc,               \* len(sys.argv)
    file_exists,        \* os.path.exists(input_csv_file)
    columns,            \* df_final.columns
    missing_columns,    \* the list printed by "ERROR: Missing columns in CSV"
    steps,              \* the processing steps executed so far, in order
    stdout,             \* the values printed to standard output, one per print
    exit_status,        \* the exit status of the process, -1 while it runs
    failure,            \* which error ended the run, "none" if none did
    pc                  \* position of the run

normVars == <<name, once, twice>>
findVars == <<target_song_name, df, tempo, similarity_matrix, best_match_idx,
              best_match_score, similar_indices, match_idx, find_log,
              recommended>>
mainVars == <<argc, file_exists, columns, missing_columns, steps, stdout,
              exit_status, failure>>
vars == <<normVars, findVars, mainVars, pc>>

----------------------------------------------------------------------------
(* Characters *)

LowerLetters == {"a", "b", "c", "d", "e", "g", "i", "l", "n", "o", "s", "v", "x"}
UpperLetters == {"A", "B", "L", "S"}
Digits == {"1"}
Openers == {"(", "["}
Closers == {")", "]"}
Newline == "\n"
Spaces == {" ", Newline}
Punctuation == {"!", "."}

\* a value that is not a str (a missing CSV cell is the float nan)
NaN == <<"nan">>
\* Python's None
None == <<"None">>

\* isinstance(v, str)
IsStr(v) == v \notin {NaN, None}

\* the regex class \w on the characters above: letters, digits, underscore
IsWord(c) == c \in LowerLetters \cup UpperLetters \cup Digits \cup {"_"}
\* the regex class \s and the characters str.strip() removes
IsSpace(c) == c \in Spaces
\* the regex class [^\w\s] is the complement of this
IsWordOrSpace(c) == IsWord(c) \/ IsSpace(c)

\* str.lower() on one character
LowerChar(c) ==
    CASE c = "A" -> "a"
      [] c = "B" -> "b"
      [] c = "L" -> "l"
      [] c = "S" -> "s"
      [] OTHER   -> c

----------------------------------------------------------------------------
(* normalize_song_name *)

\* the end of the match of [\(\[].*?[\)\]] starting at position i (s[i] is an
\* opener): the first closer after i, if no newline lies before it ("." does
\* not match a newline); 0 when there is no match at i
BracketMatchEnd(s, i) ==
    LET closers == {j \in (i + 1)..Len(s) : s[j] \in Closers}
        first == CHOOSE j \in closers : \A k \in closers : j <= k
    IN  IF closers = {} THEN 0
        ELSE IF \E k \in (i + 1)..(first - 1) : s[k] = Newline THEN 0
        ELSE first

RECURSIVE RemoveBracketedFrom(_, _)
\* re.sub(r'[\(\[].*?[\)\]]', '', s), scanning from position i
RemoveBracketedFrom(s, i) ==
    IF i > Len(s) THEN <<>>
    ELSE IF s[i] \in Openers /\ BracketMatchEnd(s, i) # 0
         THEN RemoveBracketedFrom(s, BracketMatchEnd(s, i) + 1)
         ELSE <<s[i]>> \o RemoveBracketedFrom(s, i + 1)

\* a variant that deletes the bracket characters and keeps what they enclose
RemoveBracketsOnly(s) ==
    LET notBracket(c) == c \notin Openers \cup Closers
    IN  SelectSeq(s, notBracket)

RemoveBracketed(s) == RemoveBracketedFrom(s, 1)

\* re.sub(r'[^\w\s]', '', s)
RemoveSpecial(s) == SelectSeq(s, IsWordOrSpace)

\* str.lower()
Lower(s) == [i \in 1..Len(s) |-> LowerChar(s[i])]

RECURSIVE LStrip(_)
LStrip(s) == IF s # <<>> /\ IsSpace(Head(s)) THEN LStrip(Tail(s)) ELSE s

RECURSIVE RStrip(_)
RStrip(s) ==
    IF s # <<>> /\ IsSpace(s[Len(s)]) THEN RStrip(SubSeq(s, 1, Len(s) - 1)) ELSE s

\* str.strip()
Strip(s) == RStrip(LStrip(s))

RECURSIVE CollapseSpaces(_)
\* re.sub(r'\s+', ' ', s): every maximal run of whitespace becomes one space
CollapseSpaces(s) ==
    IF s = <<>> THEN <<>>
    ELSE IF IsSpace(Head(s))
         THEN <<" ">> \o CollapseSpaces(LStrip(s))
         ELSE <<Head(s)>> \o CollapseSpaces(Tail(s))

\* a variant that trims before the special characters are removed
NormalizeTrimFirst(v) ==
    IF ~IsStr(v) THEN <<>>
    ELSE CollapseSpaces(Lower(RemoveSpecial(Strip(RemoveBracketed(v)))))

normalize_song_name(v) ==
    IF ~IsStr(v) THEN <<>>
    ELSE CollapseSpaces(Strip(Lower(RemoveSpecial(RemoveBracketed(v)))))

----------------------------------------------------------------------------
(* find_best_crossfade_from_match: name resolution *)

\* a variant in which the empty str is contained in nothing
IsNonEmptySubstring(a, b) ==
    /\ a # <<>>
    /\ \E i \in 0..(Len(b) - Len(a)) : SubSeq(b, i + 1, i + Len(a)) = a

\* a in b, on str
IsSubstring(a, b) ==
    \E i \in 0..(Len(b) - Len(a)) : SubSeq(b, i + 1, i + Len(a)) = a

\* set(s.split()): the maximal runs of non-whitespace characters of s
Words(s) ==
    LET runs == {r \in (1..Len(s)) \X (1..Len(s)) :
                    /\ r[1] <= r[2]
                    /\ \A k \in r[1]..r[2] : ~IsSpace(s[k])
                    /\ (r[1] = 1 \/ IsSpace(s[r[1] - 1]))
                    /\ (r[2] = Len(s) \/ IsSpace(s[r[2] + 1]))}
    IN  {SubSeq(s, r[1], r[2]) : r \in runs}

\* the 0.3 of "best_match_score < 0.3", as MatchThresholdNum / MatchThresholdDen
MatchThresholdNum == 3
MatchThresholdDen == 10

\* scores are exact fractions <<numerator, denominator>>, denominator > 0
ScoreZero == <<0, 1>>
ScoreOne == <<1, 1>>
ScoreGreater(a, b) == a[1] * b[2] > b[1] * a[2]
ScoreBelowThreshold(a) == a[1] * MatchThresholdDen < MatchThresholdNum * a[2]

Max(a, b) == IF a >= b THEN a ELSE b

\* a variant that counts the union of the two word sets
MatchScoreUnion(normalized_target, csv_song_normalized) ==
    IF \/ IsSubstring(normalized_target, csv_song_normalized)
       \/ IsSubstring(csv_song_normalized, normalized_target)
    THEN ScoreOne
    ELSE LET target_words == Words(normalized_target)
             csv_words == Words(csv_song_normalized)
         IN  <<Cardinality(target_words \cup csv_words),
               Max(Cardinality(target_words), 1)>>

\* the body of the loop over df_normalized: the score of one candidate
MatchScore(normalized_target, csv_song_normalized) ==
    IF \/ IsSubstring(normalized_target, csv_song_normalized)
       \/ IsSubstring(csv_song_normalized, normalized_target)
    THEN ScoreOne
    ELSE LET target_words == Words(normalized_target)
             csv_words == Words(csv_song_normalized)
             common_words == target_words \cap csv_words
         IN  <<Cardinality(common_words), Max(Cardinality(target_words), 1)>>

\* a variant with "score >= best_match_score": the last of equal scores wins
ImprovesOrTies(score, best) == ~ScoreGreater(best, score)

\* "if score > best_match_score": does the candidate replace the best so far
Improves(score, best) == ScoreGreater(score, best)

RECURSIVE ScanCandidates(_, _, _, _, _)
\* the loop "for idx, csv_song_normalized in enumerate(df_normalized)", from
\* row idx on; the result is <<best_match_idx, best_match_score>>
ScanCandidates(normalized_target, df_normalized, idx, best_idx, best_score) ==
    IF idx >= Len(df_normalized) THEN <<best_idx, best_score>>
    ELSE LET score == MatchScore(normalized_target, df_normalized[idx + 1])
         IN  IF Improves(score, best_score)
             THEN ScanCandidates(normalized_target, df_normalized, idx + 1, idx, score)
             ELSE ScanCandidates(normalized_target, df_normalized, idx + 1,
                                 best_idx, best_score)

\* df['filename'].apply(normalize_song_name)
NormalizedColumn(table) == [i \in 1..Len(table) |-> normalize_song_name(table[i])]

\* lines 43-67: <<best_match_idx, best_match_score>> for a query and a table
ResolveName(query, table) ==
    ScanCandidates(normalize_song_name(query), NormalizedColumn(table), 0, -1, ScoreZero)

\* "if best_match_idx == -1 or best_match_score < 0.3": no suitable match
NoSuitableMatch(best) == best[1] = -1 \/ ScoreBelowThreshold(best[2])

----------------------------------------------------------------------------
(* main: the similarity matrix *)

Abs(x) == IF x < 0 THEN -x ELSE x

\* np.abs(tempo_end.reshape(-1, 1) - tempo_start.reshape(1, -1))
TempoMatrix(tp) ==
    [i \in 1..Len(tp) |-> [j \in 1..Len(tp) |-> Abs(tp[i][2] - tp[j][1])]]

\* tempo_matrix.max()
MatrixMax(m) ==
    CHOOSE x \in {m[i][j] : i, j \in 1..Len(m)} :
        \A i, j \in 1..Len(m) : m[i][j] <= x

\* the weighted sum for tracks whose timbre and pitch-class vectors are all
\* equal: the scaled vectors are zero, both cosine terms are 0 and the entry
\* is TEMPO_WEIGHT * (1 - tempo_matrix / (tempo_matrix.max() + 1e-8)).  The
\* entries are kept in units in which that value is max - tempo_matrix, which
\* orders the entries, and makes them equal, exactly as the floats do.
SimilarityMatrix(tp) ==
    IF Len(tp) = 0 THEN <<>>
    ELSE LET tempo_matrix == TempoMatrix(tp)
             largest == MatrixMax(tempo_matrix)
         IN  [i \in 1..Len(tp) |-> [j \in 1..Len(tp) |-> largest - tempo_matrix[i][j]]]

----------------------------------------------------------------------------
(* find_best_crossfade_from_match: selection *)

\* similarity_matrix[target_song_idx, :]
SimilarityRow(matrix, t) == matrix[t + 1]

\* a variant without the reversal [::-1]: non-decreasing similarity
ArgsortAscending(similarities) ==
    LET n == Len(similarities)
    IN  {p \in [1..n -> 0..(n - 1)] :
            /\ \A i, j \in 1..n : i # j => p[i] # p[j]
            /\ \A i \in 1..(n - 1) :
                   similarities[p[i] + 1] <= similarities[p[i + 1] + 1]}

\* the orders similarities.argsort()[::-1] can produce: every arrangement of
\* the column indices with non-increasing similarity (the sort is not stable,
\* so columns of equal similarity come in any order)
ArgsortDescending(similarities) ==
    LET n == Len(similarities)
    IN  {p \in [1..n -> 0..(n - 1)] :
            /\ \A i, j \in 1..n : i # j => p[i] # p[j]
            /\ \A i \in 1..(n - 1) :
                   similarities[p[i] + 1] >= similarities[p[i + 1] + 1]}

\* a variant without the test "idx != target_song_idx"
FirstOfOrder(order, k, target_song_idx) ==
    IF k > Len(order) THEN -1 ELSE order[k]

RECURSIVE FirstOther(_, _, _)
\* "for idx in similar_indices: if idx != target_song_idx: return ...":
\* the first index of the order, from position k on, that is not the target;
\* -1 when the loop ends without returning
FirstOther(order, k, target_song_idx) ==
    IF k > Len(order) THEN -1
    ELSE IF order[k] # target_song_idx THEN order[k]
    ELSE FirstOther(order, k + 1, target_song_idx)

\* df.iloc[idx]['filename'], or None when no row was selected
FilenameOf(table, idx) == IF idx = -1 THEN None ELSE table[idx + 1]

\* lines 76-95: the selection for a resolved row, under one order of the sort
SelectMatch(table, matrix, best, order) ==
    LET idx == FirstOther(order, 1, best[1])
    IN  [best_match_idx |-> best[1], best_match_score |-> best[2],
         similar_indices |-> order, match_idx |-> idx,
         log |-> IF idx = -1 THEN "only_self" ELSE "selected",
         returned |-> FilenameOf(table, idx)]

\* find_best_crossfade_from_match(query, table, matrix): what a call can
\* compute and return, one outcome per order the sort can produce
FindBestOutcomes(query, table, matrix) ==
    LET best == ResolveName(query, table)
    IN  IF NoSuitableMatch(best)
        THEN {[best_match_idx |-> best[1], best_match_score |-> best[2],
               similar_indices |-> <<>>, match_idx |-> -1,
               log |-> "no_match", returned |-> None]}
        ELSE {SelectMatch(table, matrix, best, order) :
                  order \in ArgsortDescending(SimilarityRow(matrix, best[1]))}

MainIdle ==
    /\ argc = 0
    /\ file_exists = FALSE
    /\ columns = {}
    /\ missing_columns = <<>>
    /\ steps = <<>>
    /\ stdout = <<>>
    /\ exit_status = -1
    /\ failure = "none"

FindIdle ==
    /\ target_song_name = <<>>
    /\ df = <<>>
    /\ tempo = <<>>
    /\ similarity_matrix = <<>>
    /\ best_match_idx = -1
    /\ best_match_score = ScoreZero
    /\ similar_indices = <<>>
    /\ match_idx = -1
    /\ find_log = "none"
    /\ recommended = None

----------------------------------------------------------------------------
(* The normalizer applied to bounded inputs *)

MaxLen == 4

Alphabet == {"(", ")", "[", "]", "!", "a", "A", "_", "1", " ", Newline}

\* the strs of length n over the alphabet
StringsOfLen(n) == [1..n -> Alphabet]

SongLiveRaw == <<"S", "o", "n", "g", " ", "(", "L", "i", "v", "e", ")", " ", "!", "!">>
SongLive == <<"s", "o", "n", "g", " ", "l", "i", "v", "e">>
Song == <<"s", "o", "n", "g">>

InitNormalize ==
    /\ \/ \E n \in 0..MaxLen : name \in StringsOfLen(n)
       \/ name \in {SongLiveRaw, SongLive, Song, NaN}
    /\ once = None
    /\ twice = None
    /\ pc = "input"
    /\ FindIdle
    /\ MainIdle

\* normalized = normalize_song_name(name)
NormalizeOnce ==
    /\ pc = "input"
    /\ once' = normalize_song_name(name)
    /\ pc' = "normalized"
    /\ UNCHANGED <<name, twice, findVars, mainVars>>

\* normalize_song_name applied to its own result
NormalizeAgain ==
    /\ pc = "normalized"
    /\ twice' = normalize_song_name(once)
    /\ pc' = "renormalized"
    /\ UNCHANGED <<name, once, findVars, mainVars>>

NextNormalize == NormalizeOnce \/ NormalizeAgain

SpecNormalize == InitNormalize /\ [][NextNormalize]_vars

----------------------------------------------------------------------------
(* find_best_crossfade_from_match on bounded inputs *)

MaxRows == 3
MaxTracks == 3
MaxTempo == 1

\* labels of the table: "ab", "ab x", "Ab (x)", "x ab", "x" and a missing cell
LabelAb == <<"a", "b">>
LabelAbX == <<"a", "b", " ", "x">>
LabelAbBracket == <<"A", "b", " ", "(", "x", ")">>
LabelXAb == <<"x", " ", "a", "b">>
LabelX == <<"x">>
Labels == {LabelAb, LabelAbX, LabelAbBracket, LabelXAb, LabelX, NaN}

\* queries: every str label, and "a", "c", "()", "ab c d", "ab c d e"
QueryA == <<"a">>
QueryC == <<"c">>
QueryBrackets == <<"(", ")">>
QueryAbCD == <<"a", "b", " ", "c", " ", "d">>
QueryAbCDE == <<"a", "b", " ", "c", " ", "d", " ", "e">>
Queries ==
    (Labels \ {NaN}) \cup {QueryA, QueryC, QueryBrackets, QueryAbCD, QueryAbCDE}

\* the tables of n rows with the given labels
TablesOfLen(labels, n) == [1..n -> labels]

\* the tempo columns of a table of n rows
TempoValues == 0..MaxTempo
TempoColumns(n) == [1..n -> TempoValues \X TempoValues]

\* tempo columns that give every row of the matrix pairwise different entries
RisingTempo(n) == [i \in 1..n |-> <<i, n>>]

\* tables of tracks "a", "b", "c", ... whose labels resolve to their own row
TrackLetters == <<"a", "b", "c", "d", "e", "g">>
TrackTable(n) == [i \in 1..n |-> <<TrackLetters[i]>>]

\* any query and any table of labels, with a matrix of distinct entries
InitNames ==
    /\ target_song_name \in Queries
    /\ \E n \in 0..MaxRows : df \in TablesOfLen(Labels, n)
    /\ tempo = RisingTempo(Len(df))

\* the label of a row of a table of tracks, with any tempo columns
InitMatrices ==
    \E n \in 1..MaxTracks :
        /\ df = TrackTable(n)
        /\ target_song_name \in {df[i] : i \in 1..n}
        /\ tempo \in TempoColumns(n)

InitFind ==
    /\ name = <<>>
    /\ once = None
    /\ twice = None
    /\ pc = "call"
    /\ InitNames \/ InitMatrices
    /\ similarity_matrix = SimilarityMatrix(tempo)
    /\ best_match_idx = -1
    /\ best_match_score = ScoreZero
    /\ similar_indices = <<>>
    /\ match_idx = -1
    /\ find_log = "none"
    /\ recommended = None
    /\ MainIdle

\* a call of find_best_crossfade_from_match(target_song_name, df, similarity_matrix)
FindBest ==
    /\ pc = "call"
    /\ \E r \in FindBestOutcomes(target_song_name, df, similarity_matrix) :
           /\ best_match_idx' = r.best_match_idx
           /\ best_match_score' = r.best_match_score
           /\ similar_indices' = r.similar_indices
           /\ match_idx' = r.match_idx
           /\ find_log' = r.log
           /\ recommended' = r.returned
    /\ pc' = "returned"
    /\ UNCHANGED <<normVars, target_song_name, df, tempo, similarity_matrix, mainVars>>

NextFind == FindBest

SpecFind == InitFind /\ [][NextFind]_vars

----------------------------------------------------------------------------
(* main *)

MaxMainRows == 2

required_columns ==
    <<"filename", "mfcc_start", "chroma_start", "mfcc_end", "chroma_end",
      "tempo_start", "tempo_end">>

Range(f) == {f[i] : i \in DOMAIN f}

\* a variant that checks only the columns the parsing step reads
MissingParsedColumns(cols) ==
    LET absent(col) == col \notin cols /\ col \notin {"filename", "tempo_start", "tempo_end"}
    IN  SelectSeq(required_columns, absent)

\* [col for col in required_columns if col not in df_final.columns]
MissingColumns(cols) ==
    LET absent(col) == col \notin cols
    IN  SelectSeq(required_columns, absent)

\* a variant that prints whatever the call returned
AlwaysTruthy(v) == TRUE

\* "if recommended_song_name:": None and the empty str are false
Truthy(v) == v \notin {None, <<>>}

MainLabels == {LabelAbBracket, NaN}
MainQueries == {LabelAbBracket, QueryC}
ColumnSets == SUBSET Range(required_columns)

InitMain ==
    /\ name = <<>>
    /\ once = None
    /\ twice = None
    /\ pc = "start"
    /\ FindIdle
    /\ MainIdle

\* sys.exit(1) after an error message
ExitWith(kind) ==
    /\ failure' = kind
    /\ exit_status' = 1
    /\ pc' = "exited"

\* lines 109-117: the argument check
CheckArguments ==
    /\ pc = "start"
    /\ \E n \in 1..4, query \in MainQueries :
           /\ argc' = n
           /\ IF n < 3
              THEN /\ ExitWith("usage")
                   /\ UNCHANGED target_song_name
              ELSE /\ target_song_name' = query
                   /\ pc' = "check_file"
                   /\ UNCHANGED <<failure, exit_status>>
    /\ UNCHANGED <<normVars, df, tempo, similarity_matrix, best_match_idx,
                   best_match_score, similar_indices, match_idx, find_log,
                   recommended, file_exists, columns, missing_columns, steps, stdout>>

\* lines 120-122: the file must exist
CheckFile ==
    /\ pc = "check_file"
    /\ \E exists \in BOOLEAN :
           /\ file_exists' = exists
           /\ IF exists
              THEN pc' = "load" /\ UNCHANGED <<failure, exit_status>>
              ELSE ExitWith("no_file")
    /\ UNCHANGED <<normVars, findVars, argc, columns, missing_columns, steps, stdout>>

\* lines 124-147: read the CSV, check the columns, parse the feature columns
LoadData ==
    /\ pc = "load"
    /\ \/ \* pd.read_csv raises
          /\ steps' = steps \o <<"read_csv">>
          /\ ExitWith("load_error")
          /\ UNCHANGED <<columns, df, tempo, missing_columns>>
       \/ \* a required column is missing
          \E cols \in ColumnSets :
              /\ MissingColumns(cols) # <<>>
              /\ columns' = cols
              /\ missing_columns' = MissingColumns(cols)
              /\ steps' = steps \o <<"read_csv", "check_columns">>
              /\ ExitWith("missing_columns")
              /\ UNCHANGED <<df, tempo>>
       \/ \* all columns are there; a feature cell may fail to parse
          \E cols \in ColumnSets, n \in 0..MaxMainRows, parsed \in BOOLEAN :
            \E table \in TablesOfLen(MainLabels, n) :
              /\ MissingColumns(cols) = <<>>
              /\ columns' = cols
              /\ df' = table
              /\ tempo' \in TempoColumns(Len(table))
              /\ steps' = steps \o <<"read_csv", "check_columns", "parse_features">>
              /\ IF parsed
                 THEN pc' = "features" /\ UNCHANGED <<failure, exit_status>>
                 ELSE ExitWith("load_error")
              /\ UNCHANGED missing_columns
    /\ UNCHANGED <<normVars, target_song_name, similarity_matrix, best_match_idx,
                   best_match_score, similar_indices, match_idx, find_log,
                   recommended, argc, file_exists, stdout>>

\* lines 150-182: scale the features and build the similarity matrix
ProcessFeatures ==
    /\ pc = "features"
    /\ \/ \* np.vstack of no rows, rows of different lengths, a nan feature: raises
          /\ steps' = steps \o <<"scale_features">>
          /\ ExitWith("feature_error")
          /\ UNCHANGED similarity_matrix
       \/ /\ Len(df) > 0
          /\ similarity_matrix' = SimilarityMatrix(tempo)
          /\ steps' = steps \o <<"scale_features", "similarity">>
          /\ pc' = "recommend"
          /\ UNCHANGED <<failure, exit_status>>
    /\ UNCHANGED <<normVars, target_song_name, df, tempo, best_match_idx,
                   best_match_score, similar_indices, match_idx, find_log,
                   recommended, argc, file_exists, columns, missing_columns, stdout>>

\* lines 185-190: call find_best_crossfade_from_match, print its result or fail
Recommend ==
    /\ pc = "recommend"
    /\ \E r \in FindBestOutcomes(target_song_name, df, similarity_matrix) :
           /\ best_match_idx' = r.best_match_idx
           /\ best_match_score' = r.best_match_score
           /\ similar_indices' = r.similar_indices
           /\ match_idx' = r.match_idx
           /\ find_log' = r.log
           /\ recommended' = r.returned
           /\ steps' = steps \o (IF r.log = "no_match" THEN <<"resolve_name">>
                                 ELSE <<"resolve_name", "select">>)
           /\ IF Truthy(r.returned)
              THEN /\ stdout' = Append(stdout, r.returned)
                   /\ exit_status' = 0
                   /\ pc' = "exited"
                   /\ UNCHANGED failure
              ELSE /\ ExitWith("no_recommendation")
                   /\ UNCHANGED stdout
    /\ UNCHANGED <<normVars, target_song_name, df, tempo, similarity_matrix, argc,
                   file_exists, columns, missing_columns>>

NextMain == CheckArguments \/ CheckFile \/ LoadData \/ ProcessFeatures \/ Recommend

SpecMain == InitMain /\ [][NextMain]_vars

----------------------------------------------------------------------------
(* Properties *)

Rows == 0..(Len(df) - 1)
NormalizedQuery == normalize_song_name(target_song_name)
NormalizedRow(i) == normalize_song_name(df[i + 1])
Returned == pc = "returned"

\* the score of the specification for one candidate, as a fraction
StatedScore(q, c) ==
    IF IsSubstring(q, c) \/ IsSubstring(c, q) THEN <<1, 1>>
    ELSE <<Cardinality(Words(q) \cap Words(c)),
           IF Cardinality(Words(q)) > 1 THEN Cardinality(Words(q)) ELSE 1>>
RowScore(i) == StatedScore(NormalizedQuery, NormalizedRow(i))
AtLeastThreshold(sc) == 10 * sc[1] >= 3 * sc[2]
SameScore(a, b) == a[1] * b[2] = b[1] * a[2]
LowerScore(a, b) == a[1] * b[2] < b[1] * a[2]
Lowest(S) == CHOOSE i \in S : \A k \in S : i <= k

\* C1: the row chosen by the recommendation step is never the target row
\* itself, and with a table of exactly one row nothing is recommended (None).
C1_NeverSelf ==
    Returned =>
        /\ match_idx # -1 =>
               /\ match_idx \in Rows
               /\ match_idx # best_match_idx
               /\ recommended = df[match_idx + 1]
        /\ Len(df) = 1 => (match_idx = -1 /\ recommended = None)

\* C1 witness: the target row has the largest entry of its own row of the
\* matrix, another row exists and is the one chosen
C1_Witness ==
    /\ Returned
    /\ find_log = "selected"
    /\ Len(df) >= 2
    /\ similar_indices[1] = best_match_idx
    /\ \E k \in Rows : similarity_matrix[best_match_idx + 1][k + 1]
                         < similarity_matrix[best_match_idx + 1][best_match_idx + 1]
    /\ match_idx # best_match_idx

\* C2: a query that is exactly the label of a row resolves, with score 1.0,
\* to a row carrying that label, whatever the other rows are.
C2_ExactLabelResolves ==
    (Returned /\ \E r \in Rows : df[r + 1] = target_song_name) =>
        /\ find_log # "no_match"
        /\ best_match_score = ScoreOne
        /\ best_match_idx \in Rows
        /\ df[best_match_idx + 1] = target_song_name

\* the precondition of C3: the query shares no token with any candidate
NoSharedToken ==
    \A i \in Rows : Words(NormalizedQuery) \cap Words(NormalizedRow(i)) = {}
NoContainment ==
    \A i \in Rows : /\ ~IsSubstring(NormalizedQuery, NormalizedRow(i))
                    /\ ~IsSubstring(NormalizedRow(i), NormalizedQuery)
NotFound ==
    /\ find_log = "no_match"
    /\ match_idx = -1
    /\ recommended = None

\* C3 as stated: a query that shares no normalized token with any candidate
\* is not resolved (None is returned without selecting a row).
C3_NoSharedTokenNotFound == (Returned /\ NoSharedToken) => NotFound

\* C3 amended: a query that shares no normalized token with any candidate,
\* and whose normalized form neither contains nor is contained in any
\* normalized candidate, is not resolved.
C3_NoTokenNoContainmentNotFound ==
    (Returned /\ NoSharedToken /\ NoContainment) => (NotFound /\ best_match_idx = -1)

\* C3 witness: a table of at least two rows and a query with words, none shared
C3_Witness ==
    /\ Returned
    /\ Len(df) >= 2
    /\ Words(NormalizedQuery) # {}
    /\ \A i \in Rows : Words(NormalizedRow(i)) # {}
    /\ NoSharedToken
    /\ NoContainment
    /\ NotFound

\* C4: resolution returns the lowest index among the rows that reach the
\* maximum score when that maximum is at least 0.3, and nothing when it is
\* below 0.3 or the table is empty; the score of a row is 1.0 under
\* containment and |common words| / max(|query words|, 1) otherwise.
C4_LowestIndexOfMaximum ==
    Returned =>
        IF \E i \in Rows : AtLeastThreshold(RowScore(i))
        THEN /\ find_log # "no_match"
             /\ best_match_idx \in Rows
             /\ LET best == RowScore(best_match_idx)
                IN  /\ SameScore(best_match_score, best)
                    /\ \A k \in Rows :
                           LET score == RowScore(k)
                           IN  IF k < best_match_idx THEN LowerScore(score, best)
                               ELSE ~LowerScore(best, score)
        ELSE NotFound

\* C4 witness: two rows tie at the maximum, which is a word-overlap score
\* below 1.0, and the earlier of them is not the first row of the table
C4_Witness ==
    /\ Returned
    /\ find_log # "no_match"
    /\ best_match_idx = 1
    /\ best_match_score[1] < best_match_score[2]
    /\ \E k \in Rows : k > best_match_idx /\ SameScore(RowScore(k), best_match_score)

\* C9: for a resolved target t in a table of at least two rows the chosen
\* row j has similarity[t, j] >= similarity[t, k] for every row k # t, and
\* is the first index other than t in the descending order of row t.
C9_BestOtherRow ==
    (Returned /\ find_log # "no_match" /\ Len(df) >= 2) =>
        LET t == best_match_idx
            row == similarity_matrix[t + 1]
            others == {i \in 1..Len(similar_indices) : similar_indices[i] # t}
        IN  /\ match_idx \in Rows \ {t}
            /\ \A k \in Rows \ {t} : row[match_idx + 1] >= row[k + 1]
            /\ {similar_indices[i] : i \in 1..Len(similar_indices)} = Rows
            /\ \A i \in 1..(Len(similar_indices) - 1) :
                   row[similar_indices[i] + 1] >= row[similar_indices[i + 1] + 1]
            /\ match_idx = similar_indices[Lowest(others)]

\* C9 witness: three rows, the other two rows differ in similarity to the
\* target and the better one is chosen
C9_Witness ==
    /\ Returned
    /\ find_log = "selected"
    /\ Len(df) = 3
    /\ \E k \in Rows \ {best_match_idx, match_idx} :
           similarity_matrix[best_match_idx + 1][k + 1]
               < similarity_matrix[best_match_idx + 1][match_idx + 1]

\* C10: on a non-empty table a query whose normalized form is empty gives
\* every row the score 1.0 and resolves to row 0 instead of failing.
C10_EmptyQueryResolvesToRowZero ==
    (Returned /\ NormalizedQuery = <<>> /\ Len(df) >= 1) =>
        /\ \A i \in Rows : RowScore(i) = <<1, 1>>
        /\ best_match_idx = 0
        /\ best_match_score = ScoreOne
        /\ find_log # "no_match"

\* C10 witness: a query of brackets only against rows with non-empty names
C10_Witness ==
    /\ Returned
    /\ target_song_name = QueryBrackets
    /\ Len(df) >= 2
    /\ \A i \in Rows : NormalizedRow(i) # <<>>
    /\ best_match_idx = 0
    /\ find_log = "selected"

\* C5 as stated: "Song (Live) !!" and "song live" normalize to the same str.
C5_SongLiveEqual ==
    (pc = "normalized" /\ name = SongLiveRaw) => once = normalize_song_name(SongLive)

\* C5 amended: "Song (Live) !!" normalizes to "song", the bracketed word being
\* removed, which is what "song" normalizes to; "song live" normalizes to
\* itself, a different str.
C5_SongLiveIsSong ==
    pc = "normalized" =>
        /\ name = SongLiveRaw => (once = Song /\ once # SongLive)
        /\ name = Song => once = Song
        /\ name = SongLive => once = SongLive

\* C5 witness: "Song (Live) !!" has been normalized
C5_Witness == pc = "normalized" /\ name = SongLiveRaw /\ once = Song

\* C6: normalizing a normalized name changes nothing, and a value that is
\* not a str normalizes to the empty str.
C6_Idempotent ==
    /\ pc = "renormalized" => twice = once
    /\ (pc # "input" /\ ~IsStr(name)) => once = <<>>

\* C6 witness: an input with a newline, an unmatched bracket and an upper
\* case letter, normalized twice
C6_Witness ==
    /\ pc = "renormalized"
    /\ name = <<"A", Newline, "(", "a">>
    /\ once = <<"a", " ", "a">>

Exited == pc = "exited"
FailureKinds ==
    {"usage", "no_file", "missing_columns", "load_error", "feature_error",
     "no_recommendation"}

\* C7: a run of main ends either with status 0 and exactly one value on
\* standard output, the original label of the recommended row, or with a
\* non-zero status and nothing on standard output; every failure ends the
\* second way.
C7_TwoOutcomes ==
    /\ Exited =>
           \/ /\ exit_status = 0
              /\ failure = "none"
              /\ Len(stdout) = 1
              /\ match_idx \in Rows
              /\ stdout[1] = df[match_idx + 1]
           \/ /\ exit_status # 0
              /\ exit_status # -1
              /\ failure \in FailureKinds
              /\ stdout = <<>>
    /\ ~Exited => (stdout = <<>> /\ exit_status = -1 /\ failure = "none")
    /\ (Exited /\ find_log \in {"no_match", "only_self"}) => exit_status # 0
    /\ (Exited /\ (argc < 3 \/ ~file_exists \/ missing_columns # <<>>)) => exit_status # 0

\* C7 witness: a successful run that prints a label which is not in
\* normalized form
C7_Witness ==
    /\ Exited
    /\ exit_status = 0
    /\ stdout = <<LabelAbBracket>>
    /\ normalize_song_name(LabelAbBracket) # LabelAbBracket

ProcessingSteps ==
    {"parse_features", "scale_features", "similarity", "resolve_name", "select"}

\* C8: when a required column is missing, main reports exactly the missing
\* required columns and exits with a non-zero status before any parsing,
\* scaling, similarity or name resolution step.
C8_MissingColumnsFatal ==
    (pc \notin {"start", "check_file", "load"}
        /\ Range(required_columns) \ columns # {}
        /\ "check_columns" \in Range(steps)) =>
        /\ Exited
        /\ exit_status = 1
        /\ Range(missing_columns) = Range(required_columns) \ columns
        /\ Range(steps) \cap ProcessingSteps = {}
        /\ stdout = <<>>

\* C8 witness: only the two tempo columns are missing
C8_Witness ==
    /\ Exited
    /\ Range(required_columns) \ columns = {"tempo_start", "tempo_end"}
    /\ failure = "missing_columns"

====
